---------------------------- MODULE Spec2Model ----------------------------
(***************************************************************************)
(* ASN.1 Object identifier (OID) registry: lib/oid_registry.c              *)
(*                                                                         *)
(*   look_up_OID             hash + binary search of the registry          *)
(*   lookup_oid_digest_info  signature OID -> digest name, length, OID     *)
(*   sprint_oid, sprint_OID  encoded OID -> dotted decimal text            *)
(*                                                                         *)
(* The generated tables (oid_index, oid_data, oid_search_table) are the    *)
(* registry; they are chosen in the initial state and never change.        *)
(***************************************************************************)
EXTENDS Integers, Sequences, FiniteSets, TLC

VARIABLES
    oid_index,          \* oid_index[s+1] is the C oid_index[s]: offset of s in oid_data
    oid_data,           \* the blob of all encodings, back to back
    oid_search_table,   \* sequence of [hash, oid], searched by look_up_OID
    pc,                 \* position of the call in progress
    data,               \* the octets handed to look_up_OID / sprint_oid
    hash, i, j, k,      \* locals of look_up_OID
    probes,             \* number of iterations of the search loop so far
    found,              \* value returned by look_up_OID
    sig_oid,            \* lookup_oid_digest_info: the oid argument
    want,               \* which of its three output pointers are not NULL
    digest_algo, digest_len, digest_oid,    \* what the output pointers point to
    dret,               \* value returned by lookup_oid_digest_info
    long_bits,          \* width of unsigned long in this build (BITS_PER_LONG)
    caller,             \* who called sprint_oid: "direct" or "sprint_OID"
    oid_arg,            \* sprint_OID: the oid argument
    cap,                \* the bufsize the caller passed: size of its buffer
    buf,                \* the caller's buffer, buf[o + 1] the char at offset o
    written,            \* offsets from the buffer's start written so far
    v,                  \* sprint_oid: offset of the next octet to read
    n, num,             \* sprint_oid: the octet read last, the arc decoded
    ret, count,         \* sprint_oid: characters rendered, and by the last snprintf
    buffer, bufsize,    \* sprint_oid: write offset and the capacity left
    sret                \* value returned by sprint_oid

regVars    == <<oid_index, oid_data, oid_search_table>>
lookVars   == <<hash, i, j, k, probes, found>>
digestVars == <<sig_oid, want, digest_algo, digest_len, digest_oid, dret>>
sprintVars == <<long_bits, caller, oid_arg, cap, buf, written, v, n, num,
                ret, count, buffer, bufsize, sret>>
vars       == <<regVars, pc, data, lookVars, digestVars, sprintVars>>

-----------------------------------------------------------------------------
(* Bounds of the model *)

\* OID__NR: the number of registered OIDs (the enum's last member)
NumOIDs == 3

\* sprint_oid: the longest input built from RenderOctets
MaxDataLen == 3

\* sprint_oid: the most continuation octets in the long arcs rendered
MaxContinuation == 9

\* sprint_oid, sprint_OID: the largest bufsize passed
MaxBufSize == 27

Symbols == 0..(NumOIDs - 1)

-----------------------------------------------------------------------------
(* Bytes and fixed-width unsigned arithmetic *)

RECURSIVE BitXor(_, _)
BitXor(a, b) ==
    IF a = 0 /\ b = 0 THEN 0
    ELSE (((a % 2) + (b % 2)) % 2) + 2 * BitXor(a \div 2, b \div 2)

RECURSIVE BitAnd(_, _)
BitAnd(a, b) ==
    IF a = 0 \/ b = 0 THEN 0
    ELSE ((a % 2) * (b % 2)) + 2 * BitAnd(a \div 2, b \div 2)

\* An `unsigned' (32 bits) as its four byte lanes, least significant first.
RECURSIVE U32AddFrom(_, _, _)
U32AddFrom(lanes, x, idx) ==
    IF idx > 4 THEN <<>>
    ELSE LET t == lanes[idx] + x
         IN  <<t % 256>> \o U32AddFrom(lanes, t \div 256, idx + 1)

\* lanes + x modulo 2^32, for 0 <= x < 2^16
U32Add(lanes, x) == U32AddFrom(lanes, x, 1)

\* (unsigned)(datasize - 1): wraps to 0xffffffff when datasize = 0
HashSeed(datasize) ==
    IF datasize = 0 THEN <<255, 255, 255, 255>>
    ELSE U32Add(<<0, 0, 0, 0>>, datasize - 1)

RECURSIVE HashAccumulate(_, _, _)
HashAccumulate(lanes, octets, idx) ==
    IF idx > Len(octets) THEN lanes
    ELSE HashAccumulate(U32Add(lanes, octets[idx] * 33), octets, idx + 1)

\* hash = (hash >> 24) ^ (hash >> 16) ^ (hash >> 8) ^ hash; hash &= 0xff
HashFold(lanes) ==
    BitXor(BitXor(lanes[4], lanes[3]), BitXor(lanes[2], lanes[1]))

OIDHash(octets) ==
    HashFold(HashAccumulate(HashSeed(Len(octets)), octets, 1))

-----------------------------------------------------------------------------
(* The registry tables *)

\* Encodings the model's registries are built from.  113 = hash of the
\* last four; 99 = hash of the first.
Catalogue ==
    { <<3>>, <<85, 4>>, <<4, 85>>, <<42, 42, 43>>, <<42, 43, 42>> }

\* Octet strings looked up besides the catalogue's: the empty one, and two
\* that share hash and length with catalogue members without being one.
ForeignInputs ==
    { <<>>, <<72, 1>>, <<43, 42, 42>> }

LookupInputs == Catalogue \cup ForeignInputs

RECURSIVE Concat(_, _)
Concat(encs, s) ==
    IF s >= NumOIDs THEN <<>> ELSE encs[s] \o Concat(encs, s + 1)

RECURSIVE Offsets(_, _, _)
Offsets(encs, s, off) ==
    IF s >= NumOIDs THEN <<off>>
    ELSE <<off>> \o Offsets(encs, s + 1, off + Len(encs[s]))

TableOrders(S) ==
    { p \in [1..Cardinality(S) -> S] : \A a \in S : \E x \in DOMAIN p : p[x] = a }

\* canonical length of oid: oid_index[oid + 1] - oid_index[oid]
OIDLen(oid) == oid_index[oid + 2] - oid_index[oid + 1]

\* canonical octets of oid: oid_data[oid_index[oid] .. oid_index[oid + 1])
OIDBytes(oid) == SubSeq(oid_data, oid_index[oid + 1] + 1, oid_index[oid + 2])

RegistryInit ==
    \E encs \in [0..(NumOIDs - 1) -> Catalogue] :
    \E order \in TableOrders(0..(NumOIDs - 1)) :
        /\ oid_data = Concat(encs, 0)
        /\ oid_index = Offsets(encs, 0, 0)
        /\ oid_search_table =
               [x \in 1..NumOIDs |-> [hash |-> OIDHash(encs[order[x]]), oid |-> order[x]]]

-----------------------------------------------------------------------------
(* look_up_OID *)

\* The comparison of the canonical octets with the input, from the last
\* octet backward: "gt" when the first differing canonical octet is the
\* greater, "lt" when it is the lesser, "eq" when none differs.
RECURSIVE CompareForwardFrom(_, _, _, _)
CompareForwardFrom(oid, octets, len, idx) ==
    IF idx > len THEN "eq"
    ELSE LET a == oid_data[oid_index[oid + 1] + idx]
             b == octets[idx]
         IN  IF a > b THEN "gt"
             ELSE IF a < b THEN "lt"
             ELSE CompareForwardFrom(oid, octets, len, idx + 1)

\* the comparison run from the first octet forward
CompareForward(oid, octets, len) == CompareForwardFrom(oid, octets, len, 1)

RECURSIVE CompareReverse(_, _, _)
CompareReverse(oid, octets, len) ==
    IF len = 0 THEN "eq"
    ELSE LET a == oid_data[oid_index[oid + 1] + (len - 1) + 1]
             b == octets[len]
         IN  IF a > b THEN "gt"
             ELSE IF a < b THEN "lt"
             ELSE CompareReverse(oid, octets, len - 1)

\* a probe that takes equal hash and equal length for a match
ProbeOutcomeNoCompare(jj, octets, h) ==
    LET xhash == oid_search_table[jj + 1].hash
        len   == oid_index[oid_search_table[jj + 1].oid + 2]
                   - oid_index[oid_search_table[jj + 1].oid + 1]
    IN  IF xhash > h THEN "left"
        ELSE IF xhash < h THEN "right"
        ELSE IF len > Len(octets) THEN "left"
        ELSE IF len < Len(octets) THEN "right"
        ELSE "match"

\* One probe of table slot jj (0-based) for the input: "left" (k = j),
\* "right" (i = j + 1) or "match" (return oid).
ProbeOutcome(jj, octets, h) ==
    LET xhash == oid_search_table[jj + 1].hash
        oid   == oid_search_table[jj + 1].oid
        len   == OIDLen(oid)
    IN  IF xhash > h THEN "left"
        ELSE IF xhash < h THEN "right"
        ELSE IF len > Len(octets) THEN "left"
        ELSE IF len < Len(octets) THEN "right"
        ELSE LET c == CompareReverse(oid, octets, len)
             IN  IF c = "gt" THEN "left"
                 ELSE IF c = "lt" THEN "right"
                 ELSE "match"

Midpoint(lo, hi) == (lo + hi) \div 2

\* i = j + 1: the lower end of the range after a probe that goes right
GoRightStuck(jj) == jj

GoRight(jj) == jj + 1

\* entry: hash the input, i = 0, k = OID__NR
LookUpCall ==
    /\ pc = "idle"
    /\ \E octets \in LookupInputs :
        /\ data' = octets
        /\ hash' = OIDHash(octets)
    /\ i' = 0
    /\ k' = NumOIDs
    /\ pc' = "search"
    /\ UNCHANGED <<regVars, j, probes, found, digestVars, sprintVars>>

\* one iteration of while (i < k)
LookUpProbe ==
    /\ pc = "search"
    /\ i < k
    /\ LET jj  == Midpoint(i, k)
           out == ProbeOutcome(jj, data, hash)
       IN  /\ j' = jj
           /\ probes' = probes + 1
           /\ IF out = "left" THEN
                  /\ k' = jj
                  /\ UNCHANGED <<i, found, pc>>
              ELSE IF out = "right" THEN
                  /\ i' = GoRight(jj)
                  /\ UNCHANGED <<k, found, pc>>
              ELSE
                  /\ found' = oid_search_table[jj + 1].oid
                  /\ pc' = "done"
                  /\ UNCHANGED <<i, k>>
    /\ UNCHANGED <<regVars, data, hash, digestVars, sprintVars>>

\* the loop ends with i >= k: return OID__NR
LookUpNotFound ==
    /\ pc = "search"
    /\ i >= k
    /\ found' = NumOIDs
    /\ pc' = "done"
    /\ UNCHANGED <<regVars, data, hash, i, j, k, probes, digestVars, sprintVars>>

\* no call of look_up_OID in progress
LookUpIdle ==
    /\ hash = 0
    /\ i = 0
    /\ j = 0
    /\ k = 0
    /\ probes = 0
    /\ found = NumOIDs

\* the caller's three output variables before the call, and no call made
DigestIdle ==
    /\ sig_oid = "OID__NR"
    /\ want = [algo |-> FALSE, oid |-> FALSE, len |-> FALSE]
    /\ digest_algo = "(unset)"
    /\ digest_len = 0
    /\ digest_oid = "OID__NR"
    /\ dret = 0

\* no call of sprint_oid or sprint_OID in progress
SprintIdle ==
    /\ caller = "none"
    /\ oid_arg = NumOIDs
    /\ cap = 0
    /\ buf = <<>>
    /\ written = {}
    /\ v = 0
    /\ n = 0
    /\ num = <<>>
    /\ ret = 0
    /\ count = 0
    /\ buffer = 0
    /\ bufsize = 0
    /\ sret = 0

LookUpInit ==
    /\ RegistryInit
    /\ pc = "idle"
    /\ data = <<>>
    /\ LookUpIdle
    /\ DigestIdle
    /\ SprintIdle
    /\ long_bits = 64

LookUpNext == LookUpCall \/ LookUpProbe \/ LookUpNotFound

SpecLookUp == LookUpInit /\ [][LookUpNext]_vars

SpecLookUpFair == LookUpInit /\ [][LookUpNext]_vars /\ WF_vars(LookUpNext)

-----------------------------------------------------------------------------
(* Properties of look_up_OID *)

\* s1's octets come no later than s2's when both are read from the last
\* octet backward (equal lengths)
RECURSIVE RevLeq(_, _, _)
RevLeq(b1, b2, len) ==
    IF len = 0 THEN TRUE
    ELSE IF b1[len] < b2[len] THEN TRUE
    ELSE IF b1[len] > b2[len] THEN FALSE
    ELSE RevLeq(b1, b2, len - 1)

\* the order of the search index: hash, then length, then reverse value
TripleLeq(e1, e2) ==
    \/ e1.hash < e2.hash
    \/ /\ e1.hash = e2.hash
       /\ \/ OIDLen(e1.oid) < OIDLen(e2.oid)
          \/ /\ OIDLen(e1.oid) = OIDLen(e2.oid)
             /\ RevLeq(OIDBytes(e1.oid), OIDBytes(e2.oid), OIDLen(e1.oid))

TableSorted ==
    \A x \in 1..(NumOIDs - 1) :
        TripleLeq(oid_search_table[x], oid_search_table[x + 1])

DistinctEncodings ==
    \A s1, s2 \in Symbols : s1 # s2 => OIDBytes(s1) # OIDBytes(s2)

Registered(octets) == \E s \in Symbols : OIDBytes(s) = octets

\* C1: in a registry whose search index is sorted by (hash, length, octets
\* read backward) and whose encodings are pairwise distinct, looking up the
\* canonical octets of a symbol returns that symbol.
C1_RoundTrip ==
    (pc = "done" /\ TableSorted /\ DistinctEncodings)
        => \A s \in Symbols : data = OIDBytes(s) => found = s

\* a lookup that found its symbol after two probes, in a sorted registry
\* where another symbol shares its hash and its length
C1_Witness ==
    /\ pc = "done"
    /\ TableSorted
    /\ DistinctEncodings
    /\ found < NumOIDs
    /\ data = OIDBytes(found)
    /\ probes >= 2
    /\ \E s \in Symbols \ {found} :
          /\ OIDLen(s) = OIDLen(found)
          /\ OIDHash(OIDBytes(s)) = hash

\* C2: a lookup returns a symbol only when the input is that symbol's
\* canonical octets, length and bytes alike; every other input, the empty
\* one included, returns OID__NR.
C2_Rejection ==
    pc = "done" =>
        /\ found < NumOIDs => data = OIDBytes(found)
        /\ ~Registered(data) => found = NumOIDs

\* a lookup that was refused although a registered symbol has the input's
\* hash and the input's length
C2_Witness ==
    /\ pc = "done"
    /\ found = NumOIDs
    /\ ~Registered(data)
    /\ probes >= 1
    /\ \E s \in Symbols :
          /\ OIDLen(s) = Len(data)
          /\ oid_search_table[j + 1].oid = s
          /\ oid_search_table[j + 1].hash = hash

RECURSIVE Log2Floor(_)
Log2Floor(m) == IF m <= 1 THEN 0 ELSE 1 + Log2Floor(m \div 2)

ProbeBound == Log2Floor(NumOIDs) + 1

\* what one probe does to the range [i, k)
ProbeStep ==
    (pc = "search" /\ i < k) =>
        /\ i <= j' /\ j' < k /\ k <= NumOIDs
        /\ \/ pc' = "done" /\ found' < NumOIDs
           \/ pc' = "search" /\ i' = i /\ k' = j'
           \/ pc' = "search" /\ i' = j' + 1 /\ k' = k
        /\ pc' = "search" => (0 <= k' - i' /\ k' - i' < k - i)

\* C10: every lookup terminates, whatever the table holds; each probe picks
\* j with i <= j < k <= OID__NR and either returns or replaces [i, k) by
\* [i, j) or [j + 1, k), which is strictly smaller; there are at most
\* floor(log2 OID__NR) + 1 probes.
C10_Termination ==
    /\ [](probes <= ProbeBound)
    /\ [][ProbeStep]_vars
    /\ <>(pc = "done")

\* a lookup in an unsorted table that ended after the full number of probes
C10_Witness ==
    /\ pc = "done"
    /\ ~TableSorted
    /\ probes = ProbeBound

-----------------------------------------------------------------------------
(* lookup_oid_digest_info *)

\* the case labels of the switch
SignatureOIDs ==
    { "OID_md4WithRSAEncryption",
      "OID_sha1WithRSAEncryption", "OID_id_ecdsa_with_sha1",
      "OID_sha224WithRSAEncryption",
      "OID_sha256WithRSAEncryption", "OID_id_ecdsa_with_sha256",
      "OID_sha384WithRSAEncryption", "OID_id_ecdsa_with_sha384",
      "OID_sha512WithRSAEncryption", "OID_id_ecdsa_with_sha512" }

\* the digest OIDs the switch hands out
DigestOIDs ==
    { "OID_md4", "OID_sha1", "OID_sha224", "OID_sha256", "OID_sha384", "OID_sha512" }

\* what reaches default: besides the digest OIDs, any other member of the
\* enum ("OID_other") and the sentinel OID__NR
OtherOIDs == { "OID_other", "OID__NR" }

EnumOID == SignatureOIDs \cup DigestOIDs \cup OtherOIDs

\* the switch with sha224WithRSAEncryption sharing the sha256 case
DigestCaseSha224Shared(oid) ==
    CASE oid = "OID_md4WithRSAEncryption" ->
            [ret |-> 0, algo |-> "md4", oid |-> "OID_md4", len |-> 16]
      [] oid \in {"OID_sha1WithRSAEncryption", "OID_id_ecdsa_with_sha1"} ->
            [ret |-> 0, algo |-> "sha1", oid |-> "OID_sha1", len |-> 20]
      [] oid \in {"OID_sha224WithRSAEncryption",
                  "OID_sha256WithRSAEncryption", "OID_id_ecdsa_with_sha256"} ->
            [ret |-> 0, algo |-> "sha256", oid |-> "OID_sha256", len |-> 32]
      [] oid \in {"OID_sha384WithRSAEncryption", "OID_id_ecdsa_with_sha384"} ->
            [ret |-> 0, algo |-> "sha384", oid |-> "OID_sha384", len |-> 48]
      [] oid \in {"OID_sha512WithRSAEncryption", "OID_id_ecdsa_with_sha512"} ->
            [ret |-> 0, algo |-> "sha512", oid |-> "OID_sha512", len |-> 64]
      [] OTHER ->
            [ret |-> -1]

\* the switch: the case taken for oid, as the values it assigns and ret
DigestCase(oid) ==
    CASE oid = "OID_md4WithRSAEncryption" ->
            [ret |-> 0, algo |-> "md4", oid |-> "OID_md4", len |-> 16]
      [] oid \in {"OID_sha1WithRSAEncryption", "OID_id_ecdsa_with_sha1"} ->
            [ret |-> 0, algo |-> "sha1", oid |-> "OID_sha1", len |-> 20]
      [] oid = "OID_sha224WithRSAEncryption" ->
            [ret |-> 0, algo |-> "sha224", oid |-> "OID_sha224", len |-> 28]
      [] oid \in {"OID_sha256WithRSAEncryption", "OID_id_ecdsa_with_sha256"} ->
            [ret |-> 0, algo |-> "sha256", oid |-> "OID_sha256", len |-> 32]
      [] oid \in {"OID_sha384WithRSAEncryption", "OID_id_ecdsa_with_sha384"} ->
            [ret |-> 0, algo |-> "sha384", oid |-> "OID_sha384", len |-> 48]
      [] oid \in {"OID_sha512WithRSAEncryption", "OID_id_ecdsa_with_sha512"} ->
            [ret |-> 0, algo |-> "sha512", oid |-> "OID_sha512", len |-> 64]
      [] OTHER ->
            [ret |-> -1]

\* the caller picks the oid and which outputs it asks for
DigestCall ==
    /\ pc = "idle"
    /\ sig_oid' \in EnumOID
    /\ want' \in [algo : BOOLEAN, oid : BOOLEAN, len : BOOLEAN]
    /\ pc' = "digest"
    /\ UNCHANGED <<regVars, data, lookVars, digest_algo, digest_len, digest_oid, dret, sprintVars>>

\* the body: each output is written only through a pointer that is not NULL
DigestInfo ==
    /\ pc = "digest"
    /\ LET c == DigestCase(sig_oid)
       IN  /\ dret' = c.ret
           /\ IF c.ret = 0 THEN
                  /\ digest_algo' = IF want.algo THEN c.algo ELSE digest_algo
                  /\ digest_oid'  = IF want.oid THEN c.oid ELSE digest_oid
                  /\ digest_len'  = IF want.len THEN c.len ELSE digest_len
              ELSE
                  UNCHANGED <<digest_algo, digest_oid, digest_len>>
    /\ pc' = "done"
    /\ UNCHANGED <<regVars, data, lookVars, sig_oid, want, sprintVars>>

\* the registry is not read by lookup_oid_digest_info
RegistryUnused ==
    /\ oid_index = <<0>>
    /\ oid_data = <<>>
    /\ oid_search_table = <<>>

DigestInit ==
    /\ RegistryUnused
    /\ pc = "idle"
    /\ data = <<>>
    /\ LookUpIdle
    /\ DigestIdle
    /\ SprintIdle
    /\ long_bits = 64

DigestNext == DigestCall \/ DigestInfo

SpecDigest == DigestInit /\ [][DigestNext]_vars

-----------------------------------------------------------------------------
(* Properties of lookup_oid_digest_info *)

\* the digest each signature OID stands for
SignatureDigest(oid) ==
    CASE oid \in {"OID_md4WithRSAEncryption"} -> "md4"
      [] oid \in {"OID_sha1WithRSAEncryption", "OID_id_ecdsa_with_sha1"} -> "sha1"
      [] oid \in {"OID_sha224WithRSAEncryption"} -> "sha224"
      [] oid \in {"OID_sha256WithRSAEncryption", "OID_id_ecdsa_with_sha256"} -> "sha256"
      [] oid \in {"OID_sha384WithRSAEncryption", "OID_id_ecdsa_with_sha384"} -> "sha384"
      [] oid \in {"OID_sha512WithRSAEncryption", "OID_id_ecdsa_with_sha512"} -> "sha512"

\* digest output size in bytes
DigestSize(name) ==
    CASE name = "md4" -> 16
      [] name = "sha1" -> 20
      [] name = "sha224" -> 28
      [] name = "sha256" -> 32
      [] name = "sha384" -> 48
      [] name = "sha512" -> 64

DigestSymbol(name) ==
    CASE name = "md4" -> "OID_md4"
      [] name = "sha1" -> "OID_sha1"
      [] name = "sha224" -> "OID_sha224"
      [] name = "sha256" -> "OID_sha256"
      [] name = "sha384" -> "OID_sha384"
      [] name = "sha512" -> "OID_sha512"

OutputsUntouched ==
    /\ digest_algo = "(unset)"
    /\ digest_len = 0
    /\ digest_oid = "OID__NR"

\* C8: lookup_oid_digest_info returns 0 for exactly the ten signature OIDs,
\* with the digest's name, its size (16/20/28/32/48/64) and its own OID in
\* the outputs asked for; for every other OID, the plain digest OIDs and
\* OID__NR included, it returns not found and writes nothing.
C8_DigestMapping ==
    pc = "done" /\ sig_oid \in EnumOID =>
        IF sig_oid \in SignatureOIDs
        THEN LET name == SignatureDigest(sig_oid)
             IN  /\ dret = 0
                 /\ digest_algo = IF want.algo THEN name ELSE "(unset)"
                 /\ digest_len = IF want.len THEN DigestSize(name) ELSE 0
                 /\ digest_oid = IF want.oid THEN DigestSymbol(name) ELSE "OID__NR"
        ELSE /\ dret # 0
             /\ OutputsUntouched

\* sha224WithRSAEncryption asked for with all three outputs
C8_Witness ==
    /\ pc = "done"
    /\ sig_oid = "OID_sha224WithRSAEncryption"
    /\ want = [algo |-> TRUE, oid |-> TRUE, len |-> TRUE]
    /\ dret = 0
    /\ digest_len = 28

-----------------------------------------------------------------------------
(* Text and unsigned long arithmetic of sprint_oid *)

ENOBUFS == 105
EBADMSG == 74

DigitChar(d) == <<"0", "1", "2", "3", "4", "5", "6", "7", "8", "9">>[d + 1]

\* %u of a small value
RECURSIVE DecimalSmall(_)
DecimalSmall(x) ==
    IF x < 10 THEN <<DigitChar(x)>>
    ELSE DecimalSmall(x \div 10) \o <<DigitChar(x % 10)>>

\* A number as its base-128 limbs, least significant first.
LimbsZero(limbs) == \A x \in DOMAIN limbs : limbs[x] = 0

\* limbs[1..idx] with carry-in rem, divided by 10: quotient limbs and remainder
RECURSIVE DivLimbs(_, _, _)
DivLimbs(limbs, idx, rem) ==
    IF idx = 0 THEN [q |-> <<>>, r |-> rem]
    ELSE LET cur  == rem * 128 + limbs[idx]
             rest == DivLimbs(limbs, idx - 1, cur % 10)
         IN  [q |-> rest.q \o <<cur \div 10>>, r |-> rest.r]

RECURSIVE LimbsDigits(_)
LimbsDigits(limbs) ==
    IF LimbsZero(limbs) THEN <<>>
    ELSE LET d == DivLimbs(limbs, Len(limbs), 0)
         IN  LimbsDigits(d.q) \o <<DigitChar(d.r)>>

\* %lu
LimbsDecimal(limbs) ==
    IF LimbsZero(limbs) THEN <<"0">> ELSE LimbsDigits(limbs)

RECURSIVE Pow2(_)
Pow2(e) == IF e = 0 THEN 1 ELSE 2 * Pow2(e - 1)

\* an unsigned long of `width' bits takes this many limbs, the top one partial
NumLimbs(width) == (width + 6) \div 7
TopLimbBits(width) == width - 7 * (NumLimbs(width) - 1)

\* num = x, for an octet value x < 128
NumOfOctet(x, width) == [y \in 1..NumLimbs(width) |-> IF y = 1 THEN x ELSE 0]

\* num <<= 7: the bits shifted beyond the width are lost
NumShl7(acc, width) ==
    [y \in 1..Len(acc) |->
        IF y = 1 THEN 0
        ELSE IF y = Len(acc) THEN acc[y - 1] % Pow2(TopLimbBits(width))
        ELSE acc[y - 1]]

\* num |= x, for x < 128
NumOrLow(acc, x) == [acc EXCEPT ![1] = acc[1] + x - BitAnd(acc[1], x)]

\* the do-while taking the end of the input for the end of the arc
RECURSIVE DecodeContinueLenient(_, _, _, _)
DecodeContinueLenient(octets, pos, acc, width) ==
    IF pos >= Len(octets) THEN [bad |-> FALSE, pos |-> pos, num |-> acc, n |-> octets[pos]]
    ELSE LET x  == octets[pos + 1]
             a2 == [acc EXCEPT ![1] = BitAnd(x, 127)]
         IN  IF BitAnd(x, 128) # 0
             THEN DecodeContinueLenient(octets, pos + 1, a2, width)
             ELSE [bad |-> FALSE, pos |-> pos + 1, num |-> a2, n |-> x]

\* the do-while of a long arc: octets after the first, from offset pos
RECURSIVE DecodeContinue(_, _, _, _)
DecodeContinue(octets, pos, acc, width) ==
    IF pos >= Len(octets) THEN [bad |-> TRUE, pos |-> pos, num |-> acc, n |-> octets[pos]]
    ELSE LET x  == octets[pos + 1]
             a2 == NumOrLow(NumShl7(acc, width), BitAnd(x, 127))
         IN  IF BitAnd(x, 128) # 0
             THEN DecodeContinue(octets, pos + 1, a2, width)
             ELSE [bad |-> FALSE, pos |-> pos + 1, num |-> a2, n |-> x]

\* one arc read from offset pos: the arc, the offset after it, and bad when
\* the input ends inside it
DecodeArc(octets, pos, width) ==
    LET x == octets[pos + 1]
    IN  IF BitAnd(x, 128) = 0
        THEN [bad |-> FALSE, pos |-> pos + 1, num |-> NumOfOctet(x, width), n |-> x]
        ELSE DecodeContinue(octets, pos + 1, NumOfOctet(BitAnd(x, 127), width), width)

Min(a, b) == IF a < b THEN a ELSE b

\* snprintf(buffer, size, text) with buffer at offset `at' of the memory:
\* at most size - 1 characters and a terminator; nothing when size = 0.
\* offs: the offsets written, whether or not the caller's buffer has them.
Snprintf(mem, at, size, text) ==
    IF size <= 0 THEN [mem |-> mem, offs |-> {}]
    ELSE LET m == Min(Len(text), size - 1)
         IN  [mem  |-> [o \in DOMAIN mem |->
                          IF at <= o - 1 /\ o - 1 < at + m THEN text[o - at]
                          ELSE IF o - 1 = at + m THEN "NUL"
                          ELSE mem[o]],
              offs |-> at..(at + m)]

\* bufsize -= count, left out
RemainingStale(size, c) == size

\* bufsize -= count
Remaining(size, c) == size - c

-----------------------------------------------------------------------------
(* sprint_oid and sprint_OID *)

RenderOctets == { 1, 42, 72, 134 }

RECURSIVE SeqsUpTo(_, _)
SeqsUpTo(S, len) ==
    IF len = 0 THEN { <<>> }
    ELSE LET shorter == SeqsUpTo(S, len - 1)
         IN  shorter \cup { Append(q, x) : q \in { t \in shorter : Len(t) = len - 1 }, x \in S }

\* 1.2.<arc> with an arc of 4 to MaxContinuation + 1 octets, all bits set
LongArcInputs ==
    { <<42>> \o [x \in 1..m |-> 255] \o <<127>> : m \in 3..MaxContinuation }

SprintInputs == SeqsUpTo(RenderOctets, MaxDataLen) \cup LongArcInputs

SprintSizes == 0..MaxBufSize

ReturnPc == IF caller = "sprint_OID" THEN "check" ELSE "done"

\* a caller hands sprint_oid octets and a buffer of cap characters
SprintCall ==
    /\ pc = "idle"
    /\ data' \in SprintInputs
    /\ \E size \in SprintSizes :
        /\ cap' = size
        /\ bufsize' = size
        /\ buf' = [o \in 1..size |-> "?"]
    /\ caller' = "direct"
    /\ v' = 0
    /\ buffer' = 0
    /\ pc' = "entry"
    /\ UNCHANGED <<regVars, lookVars, digestVars, long_bits, oid_arg, written,
                   n, num, ret, count, sret>>

\* if (v >= end) goto bad; the first octet rendered as "%u.%u"
SprintFirst ==
    /\ pc = "entry"
    /\ IF v >= Len(data) THEN
           /\ pc' = "bad"
           /\ UNCHANGED <<v, n, buf, written, ret, count, buffer, bufsize, sret>>
       ELSE
           LET x    == data[v + 1]
               text == DecimalSmall(x \div 40) \o <<".">> \o DecimalSmall(x % 40)
               w    == Snprintf(buf, buffer, bufsize, text)
               c    == Len(text)
           IN  /\ n' = x
               /\ v' = v + 1
               /\ buf' = w.mem
               /\ written' = written \cup w.offs
               /\ ret' = c
               /\ count' = c
               /\ IF c >= bufsize THEN
                      /\ sret' = -ENOBUFS
                      /\ pc' = ReturnPc
                      /\ UNCHANGED <<buffer, bufsize>>
                  ELSE
                      /\ buffer' = buffer + c
                      /\ bufsize' = Remaining(bufsize, c)
                      /\ pc' = "loop"
                      /\ UNCHANGED sret
    /\ UNCHANGED <<regVars, data, lookVars, digestVars, long_bits, caller, oid_arg, cap, num>>

\* one iteration of while (v < end): an arc decoded and rendered as ".%lu"
SprintArc ==
    /\ pc = "loop"
    /\ v < Len(data)
    /\ LET d == DecodeArc(data, v, long_bits)
       IN  /\ n' = d.n
           /\ v' = d.pos
           /\ num' = d.num
           /\ IF d.bad THEN
                  /\ pc' = "bad"
                  /\ UNCHANGED <<buf, written, ret, count, buffer, bufsize, sret>>
              ELSE
                  LET text == <<".">> \o LimbsDecimal(d.num)
                      w    == Snprintf(buf, buffer, bufsize, text)
                      c    == Len(text)
                  IN  /\ buf' = w.mem
                      /\ written' = written \cup w.offs
                      /\ ret' = ret + c
                      /\ count' = c
                      /\ IF c >= bufsize THEN
                             /\ sret' = -ENOBUFS
                             /\ pc' = ReturnPc
                             /\ UNCHANGED <<buffer, bufsize>>
                         ELSE
                             /\ buffer' = buffer + c
                             /\ bufsize' = Remaining(bufsize, c)
                             /\ pc' = "loop"
                             /\ UNCHANGED sret
    /\ UNCHANGED <<regVars, data, lookVars, digestVars, long_bits, caller, oid_arg, cap>>

\* the loop ends: return ret
SprintReturn ==
    /\ pc = "loop"
    /\ v >= Len(data)
    /\ sret' = ret
    /\ pc' = ReturnPc
    /\ UNCHANGED <<regVars, data, lookVars, digestVars, long_bits, caller, oid_arg,
                   cap, buf, written, v, n, num, ret, count, buffer, bufsize>>

\* bad: snprintf(buffer, bufsize, "(bad)"); return -EBADMSG
SprintBad ==
    /\ pc = "bad"
    /\ LET w == Snprintf(buf, buffer, bufsize, <<"(", "b", "a", "d", ")">>)
       IN  /\ buf' = w.mem
           /\ written' = written \cup w.offs
    /\ sret' = -EBADMSG
    /\ pc' = ReturnPc
    /\ UNCHANGED <<regVars, data, lookVars, digestVars, long_bits, caller, oid_arg,
                   cap, v, n, num, ret, count, buffer, bufsize>>

\* the range handed to sprint_oid, one octet short
SprintOIDDataShort(oid) ==
    SubSeq(oid_data, oid_index[oid + 1] + 1, oid_index[oid + 2] - 1)

\* oid_data + oid_index[oid], oid_index[oid + 1] - oid_index[oid]
SprintOIDData(oid) ==
    SubSeq(oid_data, oid_index[oid + 1] + 1, oid_index[oid + 2])

\* sprint_OID: BUG_ON(oid >= OID__NR), then sprint_oid on the oid's octets
SprintOIDCall ==
    /\ pc = "idle"
    /\ \E oid \in 0..NumOIDs :
        /\ oid_arg' = oid
        /\ IF oid >= NumOIDs THEN
               /\ pc' = "BUG"
               /\ UNCHANGED data
           ELSE
               /\ pc' = "entry"
               /\ data' = SprintOIDData(oid)
    /\ \E size \in SprintSizes :
        /\ cap' = size
        /\ bufsize' = size
        /\ buf' = [o \in 1..size |-> "?"]
    /\ caller' = "sprint_OID"
    /\ v' = 0
    /\ buffer' = 0
    /\ UNCHANGED <<regVars, lookVars, digestVars, long_bits, written,
                   n, num, ret, count, sret>>

\* sprint_OID after sprint_oid returned: BUG_ON(ret == -EBADMSG); return ret
SprintOIDCheck ==
    /\ pc = "check"
    /\ pc' = IF sret = -EBADMSG THEN "BUG" ELSE "done"
    /\ UNCHANGED <<regVars, data, lookVars, digestVars, sprintVars>>

SprintInit ==
    /\ RegistryUnused
    /\ pc = "idle"
    /\ data = <<>>
    /\ LookUpIdle
    /\ DigestIdle
    /\ SprintIdle
    /\ long_bits \in {32, 64}

SprintNext == SprintCall \/ SprintFirst \/ SprintArc \/ SprintReturn \/ SprintBad

SpecSprint == SprintInit /\ [][SprintNext]_vars

\* Encodings the registries rendered by sprint_OID are built from: 1.2.840
\* and 2.5.4, and two that are not OIDs (empty; ending inside an arc).
RenderCatalogue == { <<42, 134, 72>>, <<85, 4>>, <<>>, <<42, 134>> }

SprintOIDInit ==
    /\ \E encs \in [Symbols -> RenderCatalogue] :
        /\ oid_data = Concat(encs, 0)
        /\ oid_index = Offsets(encs, 0, 0)
    /\ oid_search_table = <<>>
    /\ pc = "idle"
    /\ data = <<>>
    /\ LookUpIdle
    /\ DigestIdle
    /\ SprintIdle
    /\ long_bits \in {32, 64}

SprintOIDNext ==
    SprintOIDCall \/ SprintFirst \/ SprintArc \/ SprintReturn \/ SprintBad \/ SprintOIDCheck

SpecSprintOID == SprintOIDInit /\ [][SprintOIDNext]_vars

-----------------------------------------------------------------------------
(* Properties of sprint_oid and sprint_OID *)

\* the string in the caller's buffer: the characters before the first NUL
BufString ==
    LET nuls == { o \in DOMAIN buf : buf[o] = "NUL" }
    IN  IF nuls = {} THEN buf
        ELSE SubSeq(buf, 1, (CHOOSE o \in nuls : \A o2 \in nuls : o <= o2) - 1)

\* The arcs after the first octet, each as the octets of its varint; an
\* arc the input ends inside of is left out.
RECURSIVE ArcGroups(_, _, _)
ArcGroups(octets, pos, cur) ==
    IF pos > Len(octets) THEN <<>>
    ELSE LET g == Append(cur, octets[pos])
         IN  IF octets[pos] < 128
             THEN <<g>> \o ArcGroups(octets, pos + 1, <<>>)
             ELSE ArcGroups(octets, pos + 1, g)

\* the value of a varint: 7 bits an octet, most significant octet first
ArcValue(g) == [y \in 1..Len(g) |-> g[Len(g) + 1 - y] % 128]

\* that value modulo 2^width
ArcValueWrapped(g, width) ==
    [y \in 1..NumLimbs(width) |->
        IF y > Len(g) THEN 0
        ELSE IF y = NumLimbs(width) THEN ArcValue(g)[y] % Pow2(TopLimbBits(width))
        ELSE ArcValue(g)[y]]

FirstText(x) == DecimalSmall(x \div 40) \o <<".">> \o DecimalSmall(x % 40)

RECURSIVE ArcsText(_, _)
ArcsText(groups, idx) ==
    IF idx > Len(groups) THEN <<>>
    ELSE <<".">> \o LimbsDecimal(ArcValue(groups[idx])) \o ArcsText(groups, idx + 1)

RECURSIVE ArcsTextWrapped(_, _, _)
ArcsTextWrapped(groups, idx, width) ==
    IF idx > Len(groups) THEN <<>>
    ELSE <<".">> \o LimbsDecimal(ArcValueWrapped(groups[idx], width))
             \o ArcsTextWrapped(groups, idx + 1, width)

\* the dotted decimal text of the arcs the octets encode (octets not empty)
TrueText(octets) ==
    FirstText(octets[1]) \o ArcsText(ArcGroups(octets, 2, <<>>), 1)

\* the same with every arc after the second reduced modulo 2^width
WrappedText(octets, width) ==
    FirstText(octets[1]) \o ArcsTextWrapped(ArcGroups(octets, 2, <<>>), 1, width)

\* not empty and not ending inside an arc
WellFormed(octets) == Len(octets) >= 1 /\ octets[Len(octets)] < 128

EndsInContinuation(octets) == Len(octets) >= 1 /\ octets[Len(octets)] >= 128

Returned == pc = "done" /\ caller = "direct"

\* C3 as claimed: sprint_oid returns -EBADMSG for every empty input and for
\* every input whose last octet has its high bit set, whatever the input's
\* length and the buffer's size.
C3_MalformedAsClaimed ==
    (Returned /\ (Len(data) = 0 \/ EndsInContinuation(data))) => sret = -EBADMSG

\* C3 amended: sprint_oid returns -EBADMSG for every empty input at every
\* buffer size; for an input of two or more octets whose last octet has its
\* high bit set it returns -EBADMSG when bufsize exceeds the number of
\* characters rendered for the arcs before the unfinished one, and -ENOBUFS
\* otherwise; an input of one octet is never refused as malformed.
C3_Malformed ==
    Returned =>
        /\ Len(data) = 0 => sret = -EBADMSG
        /\ Len(data) = 1 => sret # -EBADMSG
        /\ (Len(data) >= 2 /\ EndsInContinuation(data)) =>
              sret = IF cap > Len(WrappedText(data, long_bits))
                     THEN -EBADMSG ELSE -ENOBUFS

\* an input of three octets ending inside an arc, refused after the arc
\* before it was rendered
C3_Witness ==
    /\ Returned
    /\ Len(data) = 3
    /\ EndsInContinuation(data)
    /\ data[2] < 128
    /\ sret = -EBADMSG
    /\ buffer > 3

\* C4 as claimed: for a well-formed input whose dotted decimal text has L
\* characters, sprint_oid returns -ENOBUFS whenever bufsize <= L and returns
\* L whenever bufsize >= L + 1.
C4_CapacityBoundary ==
    (Returned /\ WellFormed(data)) =>
        LET L == Len(TrueText(data))
        IN  /\ cap <= L => sret = -ENOBUFS
            /\ cap >= L + 1 => sret = L

\* the boundary with L the length of the text sprint_oid renders: arcs
\* reduced modulo 2^BITS_PER_LONG
CapacityBoundaryWrapped ==
    (Returned /\ WellFormed(data)) =>
        LET L == Len(WrappedText(data, long_bits))
        IN  /\ cap <= L => sret = -ENOBUFS
            /\ cap >= L + 1 => sret = L

\* C5 as claimed: whenever sprint_oid returns -EBADMSG the caller's buffer
\* holds, from its first character, the placeholder "(bad)" cut to the
\* buffer's size, and nothing rendered from the input.
C5_Placeholder ==
    (Returned /\ sret = -EBADMSG) =>
        BufString = SubSeq(<<"(", "b", "a", "d", ")">>, 1, Min(5, cap - 1))

\* what the buffer holds instead: the arcs rendered so far, then the
\* placeholder, cut to the buffer's size
PlaceholderAppended ==
    (Returned /\ sret = -EBADMSG) =>
        LET full == (IF Len(data) = 0 THEN <<>> ELSE WrappedText(data, long_bits))
                        \o <<"(", "b", "a", "d", ")">>
        IN  BufString = SubSeq(full, 1, Min(Len(full), cap - 1))

\* C6: every character sprint_oid writes, terminators included, lands at an
\* offset in [0, bufsize) of the caller's buffer, for every input and every
\* bufsize, on every path; the write offset plus the capacity left is the
\* caller's bufsize throughout and the capacity left never goes below 0.
C6_NoOverflow ==
    /\ written \subseteq 0..(cap - 1)
    /\ buffer >= 0
    /\ bufsize >= 0
    /\ buffer + bufsize = cap

\* the placeholder, written after a rendered arc, cut by the end of the buffer
C6_Witness ==
    /\ Returned
    /\ sret = -EBADMSG
    /\ buffer > 0
    /\ bufsize < 6
    /\ (cap - 1) \in written

\* C7 as claimed: a successful sprint_oid leaves "a.b" with a = n / 40 and
\* b = n % 40 for the first octet n, then ".v" for each further arc, v the
\* decimal value of the arc's varint, whatever the varint's length; its
\* return value is the length of that text.
C7_ArcText ==
    (Returned /\ sret >= 0) =>
        /\ BufString = TrueText(data)
        /\ sret = Len(TrueText(data))

\* what a successful sprint_oid leaves: the arcs modulo 2^BITS_PER_LONG
ArcTextWrapped ==
    (Returned /\ sret >= 0) =>
        /\ BufString = WrappedText(data, long_bits)
        /\ sret = Len(WrappedText(data, long_bits))

WellFormedRegistry == \A s \in Symbols : WellFormed(OIDBytes(s))

\* C9: in a registry whose encodings are all well-formed, sprint_OID of a
\* symbol below OID__NR hands sprint_oid exactly the symbol's range of
\* oid_data, and ends either with the length of the text rendered or with
\* -ENOBUFS: -EBADMSG is never produced and BUG_ON never fires.
C9_RenderSymbol ==
    (caller = "sprint_OID" /\ oid_arg < NumOIDs /\ WellFormedRegistry) =>
        /\ pc \notin {"BUG", "bad"}
        /\ data = OIDBytes(oid_arg)
        /\ pc \in {"check", "done"} =>
              \/ sret = -ENOBUFS /\ cap <= Len(WrappedText(data, long_bits))
              \/ /\ sret >= 0
                 /\ sret = Len(BufString)
                 /\ BufString = WrappedText(OIDBytes(oid_arg), long_bits)

\* sprint_OID returned 7 for the symbol of 1.2.840
C9_Witness ==
    /\ pc = "done"
    /\ caller = "sprint_OID"
    /\ oid_arg < NumOIDs
    /\ WellFormedRegistry
    /\ OIDBytes(oid_arg) = <<42, 134, 72>>
    /\ sret = 7

=============================================================================
